---- MODULE Spec2Model ----
(***************************************************************************)
(* The connection race of happy1.py, happy2.py, happy3.py and happy6.py:   *)
(* resolution, one try_connect per resolved address on a                   *)
(* ThreadPoolExecutor, and the as_completed collection loop that picks the *)
(* winner.  One behaviour is one call of happy_eyeballs / happyeyeballs of *)
(* one variant.  The executor and as_completed are modelled with the       *)
(* future states (PENDING, RUNNING, CANCELLED, CANCELLED_AND_NOTIFIED,     *)
(* FINISHED) and the waiter of concurrent.futures.                         *)
(***************************************************************************)
EXTENDS Integers, Sequences, FiniteSets, TLC

VARIABLES
    variant,          \* which of the four programs runs
    pc,               \* position of the coordinator (the caller's thread)
    hostsToTry,       \* hosts_to_try (happy6), <<host>> in the other variants
    hidx,             \* index of the next hostname to resolve
    addresses,        \* addresses / all_addresses: the resolved candidates
    fstate,           \* future_map: the state of each submitted future
    tstep,            \* where each work item / worker thread stands
    sock,             \* the socket each try_connect opened
    fresult,          \* what each future holds: result, exception or nothing
    waiterOn,         \* as_completed has installed its waiter
    initialDone,      \* futures found finished when as_completed started
    waiterQ,          \* waiter.finished_futures, in notification order
    yielded,          \* futures as_completed has yielded so far
    winner,           \* the local variable winner (happy2, happy3)
    results,          \* the local list results (happy2)
    retval,           \* the value returned to the caller
    exc,              \* the exception propagating out of the race, if any
    completionOrder,  \* history: futures in the order their probes completed
    lookups,          \* history: each hostname looked up, with what it gave
    firstRun          \* what an earlier call of the race did, None if none

vars == <<variant, pc, hostsToTry, hidx, addresses, fstate, tstep, sock,
          fresult, waiterOn, initialDone, waiterQ, yielded, winner, results,
          retval, exc, completionOrder, lookups, firstRun>>

resolveVars == <<hostsToTry, hidx, addresses, lookups>>
workerVars == <<fstate, tstep, sock, fresult, completionOrder>>
loopVars == <<waiterOn, initialDone, waiterQ, yielded>>
coordVars == <<winner, results, retval, exc>>

----------------------------------------------------------------------------
(* Bounds and program constants *)

\* At most this many candidates are raced in one behaviour.
MaxCand == 2

TIMEOUT_MS == 888
DEF_NETWORKING_TIMEOUT == 888

Variants == {"happy1", "happy2", "happy3", "happy6"}

\* The timeout the variant races under: the module constant in happy1 and
\* happy2, the default of the timeout parameter in happy3 and happy6.
Timeout(v) == IF v \in {"happy1", "happy2"} THEN TIMEOUT_MS
              ELSE DEF_NETWORKING_TIMEOUT

\* One entry of IPV6_MAPPING and one hostname without an entry.
IPV6_MAPPING == [h \in {"news.eweka.nl"} |-> "news6.eweka.nl"]
Hosts == {"news.eweka.nl", "example.org"}

\* The addresses a hostname has, in the order getaddrinfo lists them.
AddrOrder == <<"192.0.2.1", "2001:db8::1", "192.0.2.2", "2001:db8::2">>
Family(ip) == IF ip \in {"2001:db8::1", "2001:db8::2"} THEN "AF_INET6"
              ELSE "AF_INET"

\* What a successful getaddrinfo can return: a non-empty list of distinct
\* addresses, here of at most room entries.
AddrLists(room) ==
    {SubSeq(AddrOrder, 1, k) : k \in 1..(IF room < Len(AddrOrder) THEN room
                                          ELSE Len(AddrOrder))}

\* Measured durations in ms of a connect that succeeded: below the timeout,
\* equal to it, above it.  A connect that raised was refused early or ran
\* into the socket timeout.
Durations(v, ok) ==
    IF ok THEN {Timeout(v) - 1, Timeout(v), Timeout(v) + 1}
    ELSE {Timeout(v) - 1, Timeout(v) + 1}

\* Values getsockopt(SOL_SOCKET, SO_ERROR) can report: 0 or an errno.
SoErrors == {0, 104}

None == [kind |-> "None"]
NoExc == [kind |-> "NoExc"]
OSError == [kind |-> "OSError"]
CancelledError == [kind |-> "CancelledError"]
Exception(e) == [kind |-> "exception", exc |-> e]

Futures == 1..Len(fstate)

----------------------------------------------------------------------------
(* State after the call starts, before resolution *)

Init ==
    /\ variant \in Variants
    /\ pc = "resolve"
    /\ \E host \in Hosts :
         hostsToTry = IF variant = "happy6" /\ host \in DOMAIN IPV6_MAPPING
                      THEN <<host, IPV6_MAPPING[host]>>
                      ELSE <<host>>
    /\ hidx = 1
    /\ addresses = <<>>
    /\ fstate = <<>>
    /\ tstep = <<>>
    /\ sock = <<>>
    /\ fresult = <<>>
    /\ waiterOn = FALSE
    /\ initialDone = {}
    /\ waiterQ = <<>>
    /\ yielded = {}
    /\ winner = None
    /\ results = <<>>
    /\ retval = None
    /\ exc = NoExc
    /\ completionOrder = <<>>
    /\ lookups = <<>>
    /\ firstRun = None

----------------------------------------------------------------------------
(* Resolution *)

\* How many more candidates this behaviour may still take on.
Room == MaxCand - Len(addresses)

\* happy1, happy2: resolve_addresses returns the (family, ip, port) list.
\* happy3: the getaddrinfo call at the top of happyeyeballs.
ResolveOk ==
    /\ pc = "resolve"
    /\ variant \in {"happy1", "happy2", "happy3"}
    /\ \E l \in AddrLists(Room) :
         /\ addresses' = [i \in 1..Len(l) |-> [ip |-> l[i], h |-> hostsToTry[1]]]
         /\ lookups' = Append(lookups, [h |-> hostsToTry[1], ips |-> l])
    /\ pc' = "submit"
    /\ UNCHANGED <<variant, firstRun, hostsToTry, hidx, workerVars, loopVars, coordVars>>

\* getaddrinfo raises gaierror: happy1 and happy2 print and sys.exit(1),
\* happy3 logs and returns None.
ResolveFail ==
    /\ pc = "resolve"
    /\ variant \in {"happy1", "happy2", "happy3"}
    /\ pc' = IF variant = "happy3" THEN "returned" ELSE "exited"
    /\ lookups' = Append(lookups, [h |-> hostsToTry[1], ips |-> <<>>])
    /\ UNCHANGED <<variant, firstRun, hostsToTry, hidx, addresses, workerVars, loopVars,
                   coordVars>>

\* After the loop over hosts_to_try of happy6: no address at all returns
\* None, otherwise the executor is created.
AfterHost(all, next) ==
    IF next <= Len(hostsToTry) THEN "resolve"
    ELSE IF all = <<>> THEN "returned" ELSE "submit"

\* happy6: resolve_addresses(h) returns the addresses of hostname h, which
\* the caller tags with h and appends to all_addresses.
Resolve6Ok ==
    /\ pc = "resolve"
    /\ variant = "happy6"
    /\ Room > 0
    /\ \E l \in AddrLists(Room) :
         LET tagged == [i \in 1..Len(l) |-> [ip |-> l[i], h |-> hostsToTry[hidx]]]
         IN /\ addresses' = addresses \o tagged
            /\ lookups' = Append(lookups, [h |-> hostsToTry[hidx], ips |-> l])
            /\ pc' = AfterHost(addresses \o tagged, hidx + 1)
    /\ hidx' = hidx + 1
    /\ UNCHANGED <<variant, firstRun, hostsToTry, workerVars, loopVars, coordVars>>

\* A failed lookup that makes the race give up on the hostnames still to be
\* resolved.
Resolve6FailAborts ==
    /\ pc = "resolve"
    /\ variant = "happy6"
    /\ hidx' = hidx + 1
    /\ pc' = "returned"
    /\ lookups' = Append(lookups, [h |-> hostsToTry[hidx], ips |-> <<>>])
    /\ UNCHANGED <<variant, firstRun, hostsToTry, addresses, workerVars, loopVars, coordVars>>

\* happy6: the lookup raised within dns_timeout; resolve_addresses logs the
\* error and returns [].
Resolve6Fail ==
    /\ pc = "resolve"
    /\ variant = "happy6"
    /\ hidx' = hidx + 1
    /\ pc' = AfterHost(addresses, hidx + 1)
    /\ lookups' = Append(lookups, [h |-> hostsToTry[hidx], ips |-> <<>>])
    /\ UNCHANGED <<variant, firstRun, hostsToTry, addresses, workerVars, loopVars, coordVars>>

\* happy6: future.result(timeout=dns_timeout) raises TimeoutError while the
\* lookup is still running; the except clause returns [], and the with
\* statement's exit joins the lookup thread.
Resolve6Timeout ==
    /\ pc = "resolve"
    /\ variant = "happy6"
    /\ pc' = "dnsjoin"
    /\ UNCHANGED <<variant, firstRun, resolveVars, workerVars, loopVars, coordVars>>

\* happy6: the abandoned lookup ends, the join returns and resolve_addresses
\* returns [] to the loop over hosts_to_try.
Resolve6LookupEnds ==
    /\ pc = "dnsjoin"
    /\ hidx' = hidx + 1
    /\ pc' = AfterHost(addresses, hidx + 1)
    /\ lookups' = Append(lookups, [h |-> hostsToTry[hidx], ips |-> <<>>])
    /\ UNCHANGED <<variant, firstRun, hostsToTry, addresses, workerVars, loopVars, coordVars>>

----------------------------------------------------------------------------
(* The executor: submit and the worker threads *)

\* One executor.submit(try_connect, ...) of the dict comprehension that
\* builds future_map: a new PENDING future whose work item is queued.
Submit ==
    /\ pc = "submit"
    /\ Len(fstate) < Len(addresses)
    /\ fstate' = Append(fstate, "PENDING")
    /\ tstep' = Append(tstep, "queued")
    /\ sock' = Append(sock, "none")
    /\ fresult' = Append(fresult, None)
    /\ UNCHANGED <<variant, firstRun, pc, resolveVars, completionOrder, loopVars, coordVars>>

\* The waiter as_completed installed is told of a finished or cancelled
\* future (waiter.add_result, add_exception, add_cancelled).
Notify(q, f) == IF waiterOn THEN Append(q, f) ELSE q

\* A worker thread takes work item f off the queue and finds its future
\* cancelled: future.set_running_or_notify_cancel() notifies the waiters
\* and try_connect is not run.
WorkerSkipsCancelled(f) ==
    /\ tstep[f] = "queued"
    /\ fstate[f] = "CANCELLED"
    /\ fstate' = [fstate EXCEPT ![f] = "CANCELLED_AND_NOTIFIED"]
    /\ tstep' = [tstep EXCEPT ![f] = "done"]
    /\ waiterQ' = Notify(waiterQ, f)
    /\ UNCHANGED <<variant, firstRun, pc, resolveVars, sock, fresult, completionOrder,
                   waiterOn, initialDone, yielded, coordVars>>

\* A worker thread takes work item f off the queue, moves its future to
\* RUNNING and starts try_connect, whose socket.socket(family, SOCK_STREAM)
\* returns a new open socket; the thread is then in s.connect.
WorkerStart(f) ==
    /\ tstep[f] = "queued"
    /\ fstate[f] = "PENDING"
    /\ fstate' = [fstate EXCEPT ![f] = "RUNNING"]
    /\ tstep' = [tstep EXCEPT ![f] = "connect"]
    /\ sock' = [sock EXCEPT ![f] = "open"]
    /\ UNCHANGED <<variant, firstRun, pc, resolveVars, fresult, completionOrder,
                   loopVars, coordVars>>

\* As WorkerStart, but socket.socket raises OSError (the family is not
\* supported on this machine, or no descriptor is left).  The call is
\* outside the try statement, so the work item stores the exception in the
\* future.
WorkerStartSocketFails(f) ==
    /\ tstep[f] = "queued"
    /\ fstate[f] = "PENDING"
    /\ fstate' = [fstate EXCEPT ![f] = "FINISHED"]
    /\ fresult' = [fresult EXCEPT ![f] = Exception(OSError)]
    /\ tstep' = [tstep EXCEPT ![f] = "done"]
    /\ waiterQ' = Notify(waiterQ, f)
    /\ completionOrder' = Append(completionOrder, f)
    /\ UNCHANGED <<variant, firstRun, pc, resolveVars, sock, waiterOn, initialDone,
                   yielded, coordVars>>

\* The value try_connect returns for candidate f of variant v once connect
\* has succeeded (ok) or raised, after duration ms.
TryConnectResult(v, f, ok, duration) ==
    LET a == addresses[f] IN
    CASE v = "happy1" ->
           IF ok THEN [kind |-> "dict", ip |-> a.ip, duration_ms |-> duration,
                       socket |-> f]
           ELSE None
      [] v = "happy2" ->
           IF ok THEN [kind |-> "dict", ip |-> a.ip, duration_ms |-> duration,
                       success |-> TRUE, socket |-> f]
           ELSE [kind |-> "dict", ip |-> a.ip, duration_ms |-> duration,
                 success |-> FALSE, error |-> "str(e)"]
      [] v = "happy3" ->
           IF ok THEN [kind |-> "dict", ip |-> a.ip, duration_ms |-> duration,
                       success |-> TRUE, socket |-> f, family |-> Family(a.ip)]
           ELSE [kind |-> "dict", ip |-> a.ip, duration_ms |-> duration,
                 success |-> FALSE, error |-> "str(e)", family |-> Family(a.ip)]
      [] v = "happy6" ->
           IF ok THEN [kind |-> "dict", ip |-> a.ip, duration_ms |-> duration,
                       success |-> TRUE, family |-> Family(a.ip),
                       hostname |-> a.h]
           ELSE [kind |-> "dict", ip |-> a.ip, duration_ms |-> duration,
                 success |-> FALSE, error |-> "str(e)",
                 family |-> Family(a.ip), hostname |-> a.h]

\* Whether try_connect calls s.close() before it returns.  happy1 closes in
\* its except clause.  The others close in the finally clause, on both
\* paths, when SO_ERROR is not 0.
ClosesSocket(v, ok, soError) ==
    IF v = "happy1" THEN ~ok ELSE soError # 0

\* try_connect from s.connect to its return: connect succeeds or raises,
\* the duration is measured, the socket is closed or left open, and the
\* work item stores the returned value in the future (set_result).
Connect(f) ==
    /\ tstep[f] = "connect"
    /\ \E ok \in BOOLEAN : \E duration \in Durations(variant, ok),
                            soError \in SoErrors :
         /\ fresult' = [fresult EXCEPT
                           ![f] = TryConnectResult(variant, f, ok, duration)]
         /\ sock' = [sock EXCEPT
                        ![f] = IF ClosesSocket(variant, ok, soError)
                               THEN "closed" ELSE "open"]
    /\ fstate' = [fstate EXCEPT ![f] = "FINISHED"]
    /\ tstep' = [tstep EXCEPT ![f] = "done"]
    /\ waiterQ' = Notify(waiterQ, f)
    /\ completionOrder' = Append(completionOrder, f)
    /\ UNCHANGED <<variant, firstRun, pc, resolveVars, waiterOn, initialDone, yielded,
                   coordVars>>

----------------------------------------------------------------------------
(* The coordinator: as_completed and the collection loop *)

Done(st) == st \in {"CANCELLED", "CANCELLED_AND_NOTIFIED", "FINISHED"}

\* as_completed(future_map) starts: the futures already finished are put
\* aside in a set, and a waiter is installed on all futures.
StartAsCompleted ==
    /\ pc = "submit"
    /\ Len(fstate) = Len(addresses)
    /\ pc' = "collect"
    /\ waiterOn' = TRUE
    /\ initialDone' = {f \in Futures :
                         fstate[f] \in {"CANCELLED_AND_NOTIFIED", "FINISHED"}}
    /\ UNCHANGED <<variant, firstRun, resolveVars, workerVars, waiterQ, yielded, coordVars>>

\* future.result() raises: CancelledError for a cancelled future, the
\* stored exception for a work item that raised.
ResultRaises(f) ==
    fstate[f] = "CANCELLED_AND_NOTIFIED" \/ fresult[f].kind = "exception"

RaisedBy(f) ==
    IF fstate[f] = "CANCELLED_AND_NOTIFIED" THEN CancelledError
    ELSE fresult[f].exc

\* A winner test that lets every later qualifying outcome take the place of
\* the winner.
WinnerFreeAlways(w) == TRUE

\* "not winner" in the winner test of happy2 and happy3.
WinnerFree(w) == w = None

\* The test that makes the outcome res the winner.
Qualifies(v, res, w) ==
    CASE v = "happy1" -> res # None /\ res.duration_ms <= TIMEOUT_MS
      [] v = "happy2" -> res.success /\ res.duration_ms <= TIMEOUT_MS
                         /\ WinnerFree(w)
      [] v = "happy3" -> res.success /\ res.duration_ms <= Timeout(v)
                         /\ WinnerFree(w)
      [] v = "happy6" -> res.success

\* A winner value whose hostname is the host the race was called with.
WinnerValuePrimaryHost(v, res) ==
    CASE v \in {"happy1", "happy2"} -> res
      [] v = "happy3" ->
           [kind |-> "AddrInfo", family |-> res.family, ip |-> res.ip,
            duration_ms |-> res.duration_ms]
      [] v = "happy6" ->
           [kind |-> "AddrInfo", family |-> res.family, ip |-> res.ip,
            duration_ms |-> res.duration_ms, hostname |-> hostsToTry[1]]

\* The value kept for the winning outcome res: the dict itself in happy1
\* and happy2, an AddrInfo built from it in happy3 and happy6.
WinnerValue(v, res) ==
    CASE v \in {"happy1", "happy2"} -> res
      [] v = "happy3" ->
           [kind |-> "AddrInfo", family |-> res.family, ip |-> res.ip,
            duration_ms |-> res.duration_ms]
      [] v = "happy6" ->
           [kind |-> "AddrInfo", family |-> res.family, ip |-> res.ip,
            duration_ms |-> res.duration_ms, hostname |-> res.hostname]

\* The futures the winner branch calls cancel() on (happy1: all others;
\* happy2, happy3: those not done) or whose work items
\* shutdown(cancel_futures=True) takes off the queue (happy6).
CancelTargets(v, f) ==
    CASE v = "happy1" -> Futures \ {f}
      [] v \in {"happy2", "happy3"} -> {g \in Futures : ~Done(fstate[g])}
      [] v = "happy6" -> {g \in Futures : tstep[g] = "queued"}

\* Future.cancel(): a PENDING future becomes CANCELLED, any other state is
\* left as it is.
CancelAll(targets) ==
    [g \in Futures |-> IF g \in targets /\ fstate[g] = "PENDING"
                        THEN "CANCELLED" ELSE fstate[g]]

\* The body of the for loop for the future f that as_completed yielded,
\* where restInitial and restQ are what as_completed still holds after
\* yielding f.  Leaving the loop by return or by an exception finalises the
\* generator, which drops its waiter.
Handle(f, restInitial, restQ) ==
    IF ResultRaises(f)
    THEN /\ exc' = RaisedBy(f)
         /\ pc' = "exit"
         /\ waiterOn' = FALSE
         /\ waiterQ' = <<>>
         /\ initialDone' = {}
         /\ UNCHANGED <<fstate, tstep, winner, results, retval>>
    ELSE LET res == fresult[f]
             wins == Qualifies(variant, res, winner)
             returns == wins /\ variant \in {"happy1", "happy6"}
         IN /\ results' = IF variant = "happy2" THEN Append(results, res)
                           ELSE results
            /\ winner' = IF wins /\ variant \in {"happy2", "happy3"}
                          THEN WinnerValue(variant, res) ELSE winner
            /\ retval' = IF returns THEN WinnerValue(variant, res) ELSE retval
            /\ fstate' = IF wins THEN CancelAll(CancelTargets(variant, f))
                          ELSE fstate
            /\ tstep' = IF wins /\ variant = "happy6"
                         THEN [g \in Futures |->
                                 IF tstep[g] = "queued" THEN "drained"
                                 ELSE tstep[g]]
                         ELSE tstep
            /\ pc' = IF returns THEN "exit" ELSE "collect"
            /\ waiterOn' = ~returns
            /\ waiterQ' = IF returns THEN <<>> ELSE restQ
            /\ initialDone' = IF returns THEN {} ELSE restInitial
            /\ UNCHANGED exc

\* as_completed yields one of the futures that were already finished when
\* it started; they are held in a set, so in no particular order.
YieldInitial(f) ==
    /\ pc = "collect"
    /\ f \in initialDone
    /\ yielded' = yielded \cup {f}
    /\ Handle(f, initialDone \ {f}, waiterQ)
    /\ UNCHANGED <<variant, firstRun, resolveVars, sock, fresult, completionOrder>>

\* as_completed yields the next future its waiter was notified of.
YieldNext ==
    /\ pc = "collect"
    /\ initialDone = {}
    /\ waiterQ # <<>>
    /\ yielded' = yielded \cup {Head(waiterQ)}
    /\ Handle(Head(waiterQ), initialDone, Tail(waiterQ))
    /\ UNCHANGED <<variant, firstRun, resolveVars, sock, fresult, completionOrder>>

\* The value returned after the for loop has run to its end.
FinalValue(v) ==
    CASE v = "happy1" -> None
      [] v = "happy2" -> [kind |-> "tuple", winner |-> winner, results |-> results]
      [] v = "happy3" -> winner
      [] v = "happy6" -> None

\* A loop that stops collecting as soon as a winner is locked.
LoopEndsAtWinner ==
    /\ pc = "collect"
    /\ (yielded = Futures \/ winner # None)
    /\ retval' = FinalValue(variant)
    /\ pc' = "exit"
    /\ waiterOn' = FALSE
    /\ UNCHANGED <<variant, firstRun, resolveVars, workerVars, initialDone, waiterQ,
                   yielded, winner, results, exc>>

\* as_completed has yielded every future: the loop ends and control
\* reaches the end of the with statement.
LoopEnds ==
    /\ pc = "collect"
    /\ yielded = Futures
    /\ retval' = FinalValue(variant)
    /\ pc' = "exit"
    /\ waiterOn' = FALSE
    /\ UNCHANGED <<variant, firstRun, resolveVars, workerVars, initialDone, waiterQ,
                   yielded, winner, results, exc>>

\* No worker thread holds or can still take a work item.
WorkersIdle == \A f \in Futures : tstep[f] \in {"done", "drained"}

\* The executor's shutdown(wait=True), called by the exit of the with
\* statement (and by happy6 itself in the winner branch), joins the worker
\* threads; then the race returns its value or lets the exception out.
ExitWith ==
    /\ pc = "exit"
    /\ WorkersIdle
    /\ pc' = IF exc = NoExc THEN "returned" ELSE "raised"
    /\ UNCHANGED <<variant, firstRun, resolveVars, workerVars, loopVars, coordVars>>

----------------------------------------------------------------------------

Next ==
    \/ ResolveOk
    \/ ResolveFail
    \/ Resolve6Ok
    \/ Resolve6Fail
    \/ Resolve6Timeout
    \/ Resolve6LookupEnds
    \/ Submit
    \/ \E f \in Futures : WorkerSkipsCancelled(f)
    \/ \E f \in Futures : WorkerStart(f)
    \/ \E f \in Futures : WorkerStartSocketFails(f)
    \/ \E f \in Futures : Connect(f)
    \/ StartAsCompleted
    \/ \E f \in Futures : YieldInitial(f)
    \/ YieldNext
    \/ LoopEnds
    \/ ExitWith

Spec == Init /\ [][Next]_vars

\* The caller, having got a value back from the race, calls it again with
\* the same host.  Every local of the first call is gone; what the first
\* call was given and what it did is kept aside in firstRun.
InvokeAgain ==
    /\ pc = "returned"
    /\ firstRun = None
    /\ firstRun' = [addresses |-> addresses, fresult |-> fresult,
                    completionOrder |-> completionOrder,
                    retval |-> retval]
    /\ pc' = "resolve"
    /\ hidx' = 1
    /\ addresses' = <<>>
    /\ fstate' = <<>>
    /\ tstep' = <<>>
    /\ sock' = <<>>
    /\ fresult' = <<>>
    /\ waiterOn' = FALSE
    /\ initialDone' = {}
    /\ waiterQ' = <<>>
    /\ yielded' = {}
    /\ winner' = None
    /\ results' = <<>>
    /\ retval' = None
    /\ exc' = NoExc
    /\ completionOrder' = <<>>
    /\ lookups' = <<>>
    /\ UNCHANGED <<variant, hostsToTry>>

NextTwice == Next \/ InvokeAgain

SpecTwice == Init /\ [][NextTwice]_vars

----------------------------------------------------------------------------
(* Vocabulary of the properties *)

\* The race is over: it returned, raised, or ended the process.
Over == pc \in {"returned", "raised", "exited"}

\* Every resolved candidate has been submitted.
AllSubmitted == Len(fstate) = Len(addresses)

\* The probe of f ran to its end (it was not cancelled before it started).
Completed(f) == fstate[f] = "FINISHED"

\* The probe of f connected.
Succeeded(f) ==
    /\ Completed(f)
    /\ fresult[f].kind = "dict"
    /\ (variant # "happy1" => fresult[f].success)

\* The probe of f connected and measured a duration within the timeout.
InBudget(f) ==
    Succeeded(f) /\ fresult[f].duration_ms <= Timeout(variant)

\* The probe of f ended without a connection: connect raised, or the
\* socket could not be created.
Failed(f) == Completed(f) /\ ~Succeeded(f)

\* The winner in the value the race returned.
RaceWinner == IF retval.kind = "tuple" THEN retval.winner ELSE retval

\* What the race returns as winner when the outcome of f is chosen.
OutcomeOf(f) == WinnerValue(variant, fresult[f])

\* The in-budget probe that completed first.
FirstInBudget ==
    LET k == CHOOSE i \in 1..Len(completionOrder) :
                 /\ InBudget(completionOrder[i])
                 /\ \A j \in 1..(i - 1) : ~InBudget(completionOrder[j])
    IN completionOrder[k]

\* A winner has been selected: locked in winner (happy2, happy3) or on its
\* way out as the return value (happy1, happy6).
WinnerSelected == winner # None \/ (pc = "exit" /\ retval.kind \in {"dict", "AddrInfo"})

\* The coordinator cannot take a step until some worker thread does: it
\* waits in as_completed for the next future, or in the executor's
\* shutdown for the threads to end.
CoordinatorWaits ==
    \/ pc = "collect" /\ initialDone = {} /\ waiterQ = <<>> /\ yielded # Futures
    \/ pc = "exit" /\ ~WorkersIdle

----------------------------------------------------------------------------
(* Claims *)

\* C1: when two or more probes succeed within the timeout, the winner the
\* race returns is the outcome of the one that completed first, in every
\* interleaving.
C1_WinnerCompletedFirst ==
    (pc = "returned" /\ Cardinality({f \in Futures : InBudget(f)}) >= 2)
        => RaceWinner = OutcomeOf(FirstInBudget)

\* C2: when exactly one probe succeeds within the timeout and every other
\* probe fails, the race returns normally and its winner is the outcome of
\* that probe.
C2_SoleSuccessWins ==
    \A f \in Futures :
        (/\ Over
         /\ AllSubmitted
         /\ InBudget(f)
         /\ \A g \in Futures \ {f} : Failed(g))
            => (pc = "returned" /\ RaceWinner = OutcomeOf(f))

\* C3: the winner the race returns has a duration of at most the timeout.
C3_WinnerWithinTimeout ==
    (pc = "returned" /\ RaceWinner # None)
        => RaceWinner.duration_ms <= Timeout(variant)

\* C4: once winner holds an outcome, no later step changes it, and the
\* value happy2 and happy3 return as winner is the value winner holds.
C4_WinnerNeverOverwritten ==
    [][/\ winner # None => winner' = winner
       /\ (pc' = "returned" /\ variant \in {"happy2", "happy3"})
             => RaceWinner' = winner']_vars

\* C4, reached: happy2 has locked a winner and has afterwards processed a
\* successful in-budget outcome with a smaller duration, and returned.
C4_Witness ==
    /\ variant = "happy2"
    /\ pc = "returned"
    /\ Len(results) = 2
    /\ winner = results[1]
    /\ results[2].success
    /\ results[2].duration_ms < winner.duration_ms

\* C5: in happy2, when no probe succeeds within the timeout, the race
\* returns no winner and a results list with exactly one entry for each
\* candidate.
C5_NoWinnerAllRecorded ==
    (/\ variant = "happy2"
     /\ pc \in {"returned", "raised"}
     /\ \A f \in Futures : Completed(f) /\ ~InBudget(f))
        => /\ pc = "returned"
           /\ retval.winner = None
           /\ Len(retval.results) = Len(addresses)
           /\ \A f \in Futures :
                 Cardinality({k \in 1..Len(retval.results) :
                                retval.results[k] = fresult[f]}) = 1

\* C6: once a winner is selected, the coordinator does not wait for probes
\* that are still running their connect attempt.
C6_ReturnsWithoutWaiting ==
    ~(/\ WinnerSelected
      /\ CoordinatorWaits
      /\ \E f \in Futures : fstate[f] = "RUNNING")

\* C7: a probe whose connect attempt failed has closed its socket by the
\* time try_connect has returned.
C7_FailedConnectClosesSocket ==
    \A f \in Futures :
        (Failed(f) /\ sock[f] # "none") => sock[f] = "closed"

\* C8: when the race has returned and all probes have finished, the socket
\* of every successful probe that is not the winner is closed.
C8_OnlyWinnerSocketOpen ==
    (pc = "returned" /\ WorkersIdle)
        => \A f \in Futures :
              (Succeeded(f) /\ RaceWinner # OutcomeOf(f)) => sock[f] # "open"

\* C9: when the race returns a winner, the winner's connected socket is
\* part of the returned value and is open.
C9_WinnerSocketHandedOver ==
    (pc = "returned" /\ RaceWinner # None)
        => /\ "socket" \in DOMAIN RaceWinner
           /\ sock[RaceWinner.socket] = "open"

\* C10: when resolution ends with zero candidates, the race returns
\* normally with no winner, having launched no probe; it neither raises nor
\* ends the process.
C10_NoCandidatesReturnsEmpty ==
    (addresses = <<>> /\ pc \notin {"resolve", "dnsjoin"})
        => (pc = "returned" /\ RaceWinner = None /\ fstate = <<>>)

\* C11: a probe that fails at any step ends as a failed outcome (success
\* false, with an error text) held by its future, and its failure never
\* leaves the race as an exception.
C11_ProbeFailureIsAnOutcome ==
    /\ exc # OSError
    /\ \A f \in Futures :
          (Failed(f) /\ variant # "happy1")
              => /\ fresult[f].kind = "dict"
                 /\ ~fresult[f].success
                 /\ "error" \in DOMAIN fresult[f]

\* C13: in happy6, once dns_timeout has expired for a hostname,
\* resolve_addresses is not waiting for the lookup that is still running.
C13_TimeoutReturnsAtOnce == pc # "dnsjoin"

\* C16: in happy2 and happy3 the collection loop never raises
\* CancelledError, whatever the futures' states were when the winner was
\* locked and cancel() was called.
C16_LoopSurvivesCancel ==
    variant \in {"happy2", "happy3"} => exc # CancelledError

\* The future whose outcome is entry k of results.
ResultFuture(k) == CHOOSE f \in Futures : fresult[f] = results[k]

\* The place of f in the order in which the probes completed.
CompletionRank(f) ==
    CHOOSE i \in 1..Len(completionOrder) : completionOrder[i] = f

\* C17: in happy2, of any two outcomes in results, the one whose probe
\* completed earlier comes first.
C17_ResultsInCompletionOrder ==
    variant = "happy2"
        => \A i, j \in 1..Len(results) :
              i < j => CompletionRank(ResultFuture(i))
                          < CompletionRank(ResultFuture(j))

\* C18: in happy2, when the race returns a winner, the returned results
\* hold exactly one entry for every candidate, those that completed after
\* the winner was locked included.
C18_AllOutcomesRecorded ==
    (variant = "happy2" /\ pc = "returned" /\ RaceWinner # None)
        => /\ Len(retval.results) = Len(addresses)
           /\ \A f \in 1..Len(addresses) :
                 Cardinality({k \in 1..Len(retval.results) :
                                retval.results[k] = fresult[f]}) = 1

\* C18, reached: happy2 returned the winner it processed first together
\* with the outcome of a probe that ran into the socket timeout.
C18_Witness ==
    /\ variant = "happy2"
    /\ pc = "returned"
    /\ Len(retval.results) = 2
    /\ retval.winner = retval.results[1]
    /\ ~retval.results[2].success
    /\ retval.results[2].duration_ms > TIMEOUT_MS

\* C19: a race over a non-empty candidate list never comes to rest before
\* it has returned its result: the coordinator is never left waiting
\* forever, and the race ends by returning.
C19_EndsByReturning ==
    addresses # <<>> => (pc = "returned" \/ ENABLED Next)

\* The candidates one lookup gave: its addresses, tagged with its hostname.
Tagged(lk) == [i \in 1..Len(lk.ips) |-> [ip |-> lk.ips[i], h |-> lk.h]]

\* The candidates of a sequence of lookups, in order.
RECURSIVE Flatten(_)
Flatten(ls) == IF ls = <<>> THEN <<>>
               ELSE Tagged(Head(ls)) \o Flatten(Tail(ls))

\* C12: in happy6, a hostname whose lookup failed or timed out adds no
\* candidate and every other hostname is still looked up; the candidates
\* are exactly the addresses of the hostnames that resolved, and all of
\* them are raced.
C12_FailedHostSkipped ==
    variant = "happy6"
        => /\ addresses = Flatten(lookups)
           /\ pc \notin {"resolve", "dnsjoin"}
                 => /\ Len(lookups) = Len(hostsToTry)
                    /\ \A i \in 1..Len(lookups) : lookups[i].h = hostsToTry[i]
           /\ pc \in {"collect", "exit", "returned", "raised"}
                 => Len(fstate) = Len(addresses)

\* C12, reached: the primary hostname did not resolve, its alias did, and
\* the alias's addresses are being raced.
C12_Witness ==
    /\ variant = "happy6"
    /\ pc = "collect"
    /\ Len(lookups) = 2
    /\ lookups[1].ips = <<>>
    /\ lookups[2].ips # <<>>
    /\ Len(fstate) = Len(lookups[2].ips)
    /\ \A f \in Futures : addresses[f].h = hostsToTry[2]

\* In happy6, the future whose outcome the loop returned as winner: the one
\* successful future among those as_completed yielded.
WinnerFuture == CHOOSE f \in yielded : Succeeded(f)

\* C14: in happy6, the winner's hostname is the hostname whose lookup gave
\* the winning candidate's address.
C14_WinnerHostnameIsSource ==
    (variant = "happy6" /\ pc = "returned" /\ RaceWinner # None)
        => /\ RaceWinner.hostname = Flatten(lookups)[WinnerFuture].h
           /\ RaceWinner.ip = Flatten(lookups)[WinnerFuture].ip

\* C14, reached: both hostnames resolved to the same address, the probe of
\* the alias's candidate won, and the winner carries the alias.
C14_Witness ==
    /\ variant = "happy6"
    /\ pc = "returned"
    /\ Len(lookups) = 2
    /\ lookups[1].ips = lookups[2].ips
    /\ lookups[1].ips # <<>>
    /\ RaceWinner # None
    /\ addresses[WinnerFuture].h = hostsToTry[2]
    /\ RaceWinner.hostname = hostsToTry[2]
    /\ RaceWinner.hostname # hostsToTry[1]

\* C15: a second call of the race that is given the same candidates, whose
\* probes have the same outcomes and complete in the same order as in the
\* first call, returns what the first call returned (the same winner and,
\* in happy2, the same list of outcomes).
C15_SameRaceSameResult ==
    ( /\ firstRun # None
      /\ pc = "returned"
      /\ addresses = firstRun.addresses
      /\ fresult = firstRun.fresult
      /\ completionOrder = firstRun.completionOrder )
        => retval = firstRun.retval

====
